---- MODULE Spec2Model ----
(***************************************************************************)
(* D11 Safety HUD (src/app.py): the session state, the risk engine, the    *)
(* synthetic telemetry generator, the proposal engine, the audit log and   *)
(* the script run that ties them together.                                 *)
(*                                                                         *)
(* Fixed-point units (the source computes in floats):                      *)
(*   speed_kph, grade_pct, roll_deg, pitch_deg, blade_load_pct,            *)
(*   obstacle_distance_m, micro_corrections_per_min : tenths               *)
(*   ground_firmness, moisture_index, visibility, gnss_hdop,               *)
(*   gnss_jitter_m                                   : thousandths         *)
(*   fuel_pct                                        : thousandths of 1%   *)
(*   shift_hours                                     : minutes (1/60 h)    *)
(*   the five risk fields                            : 1/RiskScale of 1%   *)
(*   since_update, DT_SECONDS                        : seconds             *)
(* RiskScale is the common denominator of the risk formulas over these     *)
(* units, so the risk engine is computed exactly, without rounding.        *)
(* The display-only timestamps (TelemetryRow.ts, Proposal.created_ts,      *)
(* AuditEntry.ts) are left out of the records. The clock is read only in   *)
(* time.time() - ss.last_update, so the state keeps that difference        *)
(* (since_update): ss.last_update = time.time() sets it to 0 and the       *)
(* passing of time increases it.                                           *)
(***************************************************************************)
EXTENDS Integers, Sequences, FiniteSets, TLC

VARIABLES
    tick,               \* ss.tick
    running,            \* ss.running
    since_update,       \* time.time() - ss.last_update
    history,            \* ss.history
    proposals,          \* ss.proposals
    audit,              \* ss.audit
    next_proposal_id,   \* ss.next_proposal_id
    auditAll,           \* history variable: every entry appended to ss.audit since init_state
    ev,                 \* history variable: what the last step did
    input,              \* the arguments of a function applied on its own
    output              \* its results: <<>> until it has returned

vars == <<tick, running, since_update, history, proposals, audit,
          next_proposal_id, auditAll, ev, input, output>>

\* ------------------------------------------------------------------ units

\* denominator of the risk fields: 1% = RiskScale
RiskScale == 420000

Pct(n) == n * RiskScale

\* the obstacle_distance_m sentinel 999.0, in tenths of a metre
NO_OBSTACLE == 9990

\* DT_SECONDS = 1.0
DT_SECONDS == 1

\* ss.audit[-150:] and ss.history[-600:]
AUDIT_KEEP == 150

HISTORY_KEEP == 600

\* len(open_pending) >= 4
PENDING_CAP == 4

\* ------------------------------------------------------------------ bounds

\* ticks of one session in the interleaved specification
MaxTick == 2

\* seconds let pass since ss.last_update
MaxElapsed == 2

\* clicks on Start and Pause per session in the interleaved specification
MaxControls == 1

\* decisions per session in the interleaved specification
MaxDecisions == 2

\* ticks and decisions of the session of the backpressure specification
MaxTickCap == 5

MaxDecisionsCap == 1

\* audit appends in the deep audit-log specification
MaxAppendsDeep == 153

\* ticks in the deep history specification
MaxTickDeep == 603

\* ------------------------------------------------------------------ helpers

Abs(x) == IF x < 0 THEN -x ELSE x

Max2(a, b) == IF a > b THEN a ELSE b

Min2(a, b) == IF a < b THEN a ELSE b

\* s[-n:] of a Python list
LastN(s, n) == IF Len(s) <= n THEN s ELSE SubSeq(s, Len(s) - n + 1, Len(s))

clamp(v, lo, hi) == Max2(lo, Min2(hi, v))

\* Python round(num/den) for den > 0: round half to even
RoundHalfEven(num, den) ==
    LET q == num \div den
        r == num % den
    IN  IF 2 * r < den THEN q
        ELSE IF 2 * r > den THEN q + 1
        ELSE IF q % 2 = 0 THEN q ELSE q + 1

\* ------------------------------------------------------------------ risk engine

\* 55*|roll|/20 + 30*|grade|/25 + 25*speed/12, times 600 over tenths
compute_rollover_risk(grade_pct, roll_deg, speed_kph) ==
    LET base == 700 * (165 * Abs(roll_deg) + 72 * Abs(grade_pct) + 125 * speed_kph)
    IN  clamp(base, 0, Pct(100))

\* 40*downhill + 35*moisture + 35*(1-firmness) + 20*speed/10, times 200
compute_slip_risk(grade_pct, moisture, firmness, speed_kph) ==
    LET downhill40 == Max2(0, clamp(40 * grade_pct, -9600, 9600))
        base == 2100 * (downhill40 + 7 * moisture + 7 * (1000 - firmness)
                        + 40 * speed_kph)
    IN  clamp(base, 0, Pct(100))

\* 100 * (0.45*hdop_term + 0.35*jitter_term + 0.20*vis_term), times 4200
compute_gnss_confidence(hdop, jitter_m, visibility) ==
    LET hdop_term == clamp(3500 - hdop, 0, 3500)
        jitter_term == clamp(3000 - jitter_m, 0, 3000)
        vis_term == clamp(visibility, 0, 1000)
        conf == 100 * (54 * hdop_term + 49 * jitter_term + 84 * vis_term)
    IN  clamp(conf, 0, Pct(100))

\* variant: no early return, the sentinel 999 taken as a distance
compute_obstacle_risk_SentinelIsDistance(distance_m, speed_kph) ==
    LET mps360 == IF 10 * speed_kph < 36 THEN 36 ELSE 10 * speed_kph
        ttcNum == 36 * distance_m
        base == IF ttcNum > 40 * mps360 THEN 10
                ELSE IF ttcNum > 20 * mps360 THEN 35
                ELSE IF ttcNum > 10 * mps360 THEN 60
                ELSE 85
    IN  clamp(Pct(base), 0, Pct(100))

\* variant: speed_mps not raised to 0.1, a standstill taken as no closing
compute_obstacle_risk_NoSpeedFloor(distance_m, speed_kph) ==
    IF distance_m >= 800 \/ distance_m = NO_OBSTACLE THEN 0
    ELSE IF speed_kph = 0 THEN Pct(10)
    ELSE IF 36 * distance_m > 400 * speed_kph THEN Pct(10)
    ELSE IF 36 * distance_m > 200 * speed_kph THEN Pct(35)
    ELSE IF 36 * distance_m > 100 * speed_kph THEN Pct(60)
    ELSE Pct(85)

\* ttc = distance_m / speed_mps with speed_mps = max(speed_kph/3.6, 0.1):
\* speed_mps = mps360/360 and ttc = 36*distance/mps360 over tenths
compute_obstacle_risk(distance_m, speed_kph) ==
    IF distance_m >= 800 \/ distance_m = NO_OBSTACLE THEN 0
    ELSE LET mps360 == IF 10 * speed_kph < 36 THEN 36 ELSE 10 * speed_kph
             ttcNum == 36 * distance_m
             base == IF ttcNum > 40 * mps360 THEN 10
                     ELSE IF ttcNum > 20 * mps360 THEN 35
                     ELSE IF ttcNum > 10 * mps360 THEN 60
                     ELSE 85
         IN  clamp(Pct(base), 0, Pct(100))

\* variant: base returned without clamp(base, 0, 100)
compute_overall_risk_Unclamped(rollover, slip, obstacle, gnss_conf) ==
    38 * (rollover \div 100) + 34 * (slip \div 100) + 28 * (obstacle \div 100)
    + 25 * ((Pct(100) - gnss_conf) \div 100)

\* 0.38*rollover + 0.34*slip + 0.28*obstacle + (100 - gnss_conf)*0.25;
\* every risk is a multiple of 100, so the divisions are exact
compute_overall_risk(rollover, slip, obstacle, gnss_conf) ==
    LET gnss_penalty == 25 * ((Pct(100) - gnss_conf) \div 100)
        base == 38 * (rollover \div 100) + 34 * (slip \div 100)
                + 28 * (obstacle \div 100) + gnss_penalty
    IN  clamp(base, 0, Pct(100))

\* variant: the bucket boundaries compared with <=
classify_state_ExclusiveLow(overall_risk) ==
    IF overall_risk <= Pct(25) THEN "STABLE"
    ELSE IF overall_risk <= Pct(50) THEN "ELEVATED"
    ELSE IF overall_risk <= Pct(75) THEN "HIGH"
    ELSE "CRITICAL"

classify_state(overall_risk) ==
    IF overall_risk < Pct(25) THEN "STABLE"
    ELSE IF overall_risk < Pct(50) THEN "ELEVATED"
    ELSE IF overall_risk < Pct(75) THEN "HIGH"
    ELSE "CRITICAL"

\* ------------------------------------------------------------------ generator

\* prev=None of generate_tick
None == [none |-> TRUE]

\* the values carried into a tick: the cold-start defaults, or the previous row
Carried(prev) ==
    IF prev = None
    THEN [speed_kph |-> 0, gear |-> 1, engine_rpm |-> 800, grade_pct |-> 0,
          roll_deg |-> 0, pitch_deg |-> 0, blade_load_pct |-> 0,
          fuel_pct |-> 90000, ground_firmness |-> 700, moisture_index |-> 300,
          visibility |-> 900, gnss_hdop |-> 800, gnss_jitter_m |-> 300,
          obstacle_distance_m |-> NO_OBSTACLE, obstacle_bearing_deg |-> 0,
          shift_hours |-> 120, micro_corrections_per_min |-> 220]
    ELSE [speed_kph |-> prev.speed_kph, gear |-> prev.gear,
          engine_rpm |-> prev.engine_rpm, grade_pct |-> prev.grade_pct,
          roll_deg |-> prev.roll_deg, pitch_deg |-> prev.pitch_deg,
          blade_load_pct |-> prev.blade_load_pct, fuel_pct |-> prev.fuel_pct,
          ground_firmness |-> prev.ground_firmness,
          moisture_index |-> prev.moisture_index,
          visibility |-> prev.visibility, gnss_hdop |-> prev.gnss_hdop,
          gnss_jitter_m |-> prev.gnss_jitter_m,
          obstacle_distance_m |-> prev.obstacle_distance_m,
          obstacle_bearing_deg |-> prev.obstacle_bearing_deg,
          shift_hours |-> prev.shift_hours,
          micro_corrections_per_min |-> prev.micro_corrections_per_min]

\* target_speed of the mode (tick // 40) % 4, in tenths
TargetSpeed(mode) ==
    IF mode = 0 THEN 20 ELSE IF mode = 1 THEN 50 ELSE IF mode = 2 THEN 80 ELSE 30

\* variant: the floor of 5.0 applied to the burn, not to the fuel
FuelBurn_FloorOnBurn(fuel_pct, speed_kph) ==
    clamp(fuel_pct - clamp(30 + speed_kph, 5000, 100000), 0, 100000)

\* fuel_pct -= 0.03 + speed_kph * 0.01, clamped to [5.0, 100.0]
FuelBurn(fuel_pct, speed_kph) ==
    clamp(fuel_pct - (30 + speed_kph), 5000, 100000)

\* variant: the distance compared with >= 80
ObstacleRelax_InclusiveLimit(obstacle_distance_m) ==
    IF obstacle_distance_m + 30 >= 800 THEN NO_OBSTACLE
    ELSE obstacle_distance_m + 30

\* obstacle_distance_m += 3.0, and 999.0 once over 80
ObstacleRelax(obstacle_distance_m) ==
    IF obstacle_distance_m + 30 > 800 THEN NO_OBSTACLE
    ELSE obstacle_distance_m + 30

\* generate_tick(prev) at ss.tick = ssTick. d holds the draws of the call's
\* random generator: rng.normal(loc, scale) is loc plus the draw's noise term
\* (n*), rng.random() and rng.uniform() are the draw's value (u*, newObstacle,
\* obsDistance, obsBearing). Products with 0.25, 0.3, 0.03 ... are rounded
\* down to the unit.
generate_tick(prev, ssTick, d) ==
    LET c == Carried(prev)
        t == ssTick + 1
        shift_hours == c.shift_hours + 1
        mode == (t \div 40) % 4
        target_speed == TargetSpeed(mode)
        speed_kph == clamp(c.speed_kph + ((target_speed - c.speed_kph) \div 4)
                           + d.nSpeed, 0, 120)
        gear == clamp(RoundHalfEven(30 + speed_kph, 30), 1, 4)
        engine_rpm == clamp(800 + 12 * speed_kph + d.nRpm, 800, 2100)
        grade1 == IF t % 50 = 0 THEN c.grade_pct + d.nGradeStep ELSE c.grade_pct
        grade_pct == clamp(grade1 + d.nGrade, -220, 220)
        roll_deg == clamp(c.roll_deg + ((3 * grade_pct) \div 100) + d.nRoll,
                          -180, 180)
        pitch_deg == clamp(c.pitch_deg + ((4 * grade_pct) \div 100) + d.nPitch,
                           -150, 150)
        target_load == IF mode \in {0, 1} THEN 700 + d.uLoad ELSE d.uLoad
        blade_load_pct == clamp(c.blade_load_pct
                                + ((3 * (target_load - c.blade_load_pct)) \div 10)
                                + d.nLoad, 0, 1150)
        fuel_pct == FuelBurn(c.fuel_pct, speed_kph)
        moist1 == IF t % 120 = 0 THEN c.moisture_index + 150 + d.nMoistStep
                  ELSE c.moisture_index
        moisture_index == clamp(moist1 + d.nMoist, 100, 950)
        ground_firmness == clamp(c.ground_firmness
                                 - ((15 * moisture_index) \div 1000) + d.nFirm,
                                 250, 950)
        visibility == clamp(c.visibility - 4 + d.nVis, 300, 1000)
        gnss_hdop == clamp(c.gnss_hdop + ((20 * (1000 - visibility)) \div 1000)
                           + d.nHdop, 500, 3500)
        gnss_jitter_m == clamp(c.gnss_jitter_m
                               + ((50 * (1000 - visibility)) \div 1000)
                               + d.nJitter, 150, 3000)
        obstacle_distance_m ==
            IF d.newObstacle THEN d.obsDistance
            ELSE ObstacleRelax(c.obstacle_distance_m)
        obstacle_bearing_deg ==
            IF d.newObstacle THEN d.obsBearing ELSE c.obstacle_bearing_deg
        micro_corr == clamp(c.micro_corrections_per_min
                            + ((Abs(grade_pct) + Abs(roll_deg)) \div 200)
                            + d.nMicro, 80, 600)
        rollover_risk == compute_rollover_risk(grade_pct, roll_deg, speed_kph)
        slip_risk == compute_slip_risk(grade_pct, moisture_index,
                                       ground_firmness, speed_kph)
        obstacle_risk == compute_obstacle_risk(obstacle_distance_m, speed_kph)
        gnss_conf == compute_gnss_confidence(gnss_hdop, gnss_jitter_m, visibility)
        overall_risk == compute_overall_risk(rollover_risk, slip_risk,
                                             obstacle_risk, gnss_conf)
    IN  [tick |-> t,
         speed_kph |-> speed_kph, gear |-> gear, engine_rpm |-> engine_rpm,
         grade_pct |-> grade_pct, roll_deg |-> roll_deg, pitch_deg |-> pitch_deg,
         blade_load_pct |-> blade_load_pct, fuel_pct |-> fuel_pct,
         ground_firmness |-> ground_firmness, moisture_index |-> moisture_index,
         visibility |-> visibility, gnss_hdop |-> gnss_hdop,
         gnss_jitter_m |-> gnss_jitter_m,
         obstacle_distance_m |-> obstacle_distance_m,
         obstacle_bearing_deg |-> obstacle_bearing_deg,
         shift_hours |-> shift_hours, micro_corrections_per_min |-> micro_corr,
         rollover_risk |-> rollover_risk, slip_risk |-> slip_risk,
         obstacle_risk |-> obstacle_risk, gnss_confidence |-> gnss_conf,
         overall_risk |-> overall_risk, state |-> classify_state(overall_risk)]

\* ------------------------------------------------------------------ session state

\* The session state ss as one value S, so that a script run is the
\* composition of the steps it executes. S.audit is ss.audit and S.all the
\* history variable auditAll.

init_state ==
    [tick |-> 0, running |-> FALSE, since_update |-> 0, history |-> <<>>,
     proposals |-> <<>>, audit |-> <<>>, next_proposal_id |-> 1, all |-> <<>>]

\* AuditEntry(kind, summary, meta): summary is the text with its numbers and
\* names as the fields ref and title; meta is the fields prev and rationale
AuditEntry(kind, summary, ref, title, prev, rationale) ==
    [kind |-> kind, summary |-> summary, ref |-> ref, title |-> title,
     prev |-> prev, rationale |-> rationale]

\* variant: ss.audit[:150] instead of ss.audit[-150:]
log_audit_KeepsOldest(S, entry) ==
    [S EXCEPT !.audit = SubSeq(Append(S.audit, entry), 1,
                               Min2(Len(S.audit) + 1, AUDIT_KEEP)),
              !.all = Append(S.all, entry)]

log_audit(S, entry) ==
    [S EXCEPT !.audit = LastN(Append(S.audit, entry), AUDIT_KEEP),
              !.all = Append(S.all, entry)]

\* ------------------------------------------------------------------ proposal engine

\* [x for x in s if P(x)]
RECURSIVE SelectPending(_)
SelectPending(s) ==
    IF s = <<>> THEN <<>>
    ELSE IF Head(s).status = "PENDING"
         THEN <<Head(s)>> \o SelectPending(Tail(s))
         ELSE SelectPending(Tail(s))

\* variant: the thresholds compared with >= and <=
Triggers_Inclusive(latest) ==
    (IF latest.overall_risk >= Pct(65) THEN <<"high_overall_risk">> ELSE <<>>)
    \o (IF latest.rollover_risk >= Pct(70) THEN <<"rollover_exposure">> ELSE <<>>)
    \o (IF latest.slip_risk >= Pct(70) THEN <<"traction_margin_low">> ELSE <<>>)
    \o (IF latest.obstacle_risk >= Pct(60) THEN <<"obstacle_close">> ELSE <<>>)
    \o (IF latest.gnss_confidence <= Pct(55) THEN <<"low_gnss_conf">> ELSE <<>>)

\* the triggers list of maybe_generate_proposal, in evaluation order
Triggers(latest) ==
    (IF latest.overall_risk > Pct(65) THEN <<"high_overall_risk">> ELSE <<>>)
    \o (IF latest.rollover_risk > Pct(70) THEN <<"rollover_exposure">> ELSE <<>>)
    \o (IF latest.slip_risk > Pct(70) THEN <<"traction_margin_low">> ELSE <<>>)
    \o (IF latest.obstacle_risk > Pct(60) THEN <<"obstacle_close">> ELSE <<>>)
    \o (IF latest.gnss_confidence < Pct(55) THEN <<"low_gnss_conf">> ELSE <<>>)

In(x, s) == \E i \in 1..Len(s) : s[i] = x

\* variant: the title of the first trigger in the list
Title_FirstTriggerWins(triggers) ==
    IF triggers # <<>> /\ triggers[1] = "obstacle_close"
    THEN "Pause travel - obstacle within unsafe margin"
    ELSE IF triggers # <<>> /\ triggers[1] = "rollover_exposure"
    THEN "Reduce cross-slope exposure and slow to crawl"
    ELSE IF triggers # <<>> /\ triggers[1] = "traction_margin_low"
    THEN "Back out, re-cut access path, and reassess ground"
    ELSE IF triggers # <<>> /\ triggers[1] = "low_gnss_conf"
    THEN "Switch to local references - GNSS degraded"
    ELSE "Hold profile and reduce speed until risk stabilizes"

\* the title of maybe_generate_proposal
Title(triggers) ==
    IF In("obstacle_close", triggers)
    THEN "Pause travel - obstacle within unsafe margin"
    ELSE IF In("rollover_exposure", triggers)
    THEN "Reduce cross-slope exposure and slow to crawl"
    ELSE IF In("traction_margin_low", triggers)
    THEN "Back out, re-cut access path, and reassess ground"
    ELSE IF In("low_gnss_conf", triggers)
    THEN "Switch to local references - GNSS degraded"
    ELSE "Hold profile and reduce speed until risk stabilizes"

\* the bits list: one clause per element, named by the value it reports
Bits(latest, triggers) ==
    (IF In("high_overall_risk", triggers) THEN <<"overall risk">> ELSE <<>>)
    \o (IF In("rollover_exposure", triggers) THEN <<"roll angle on grade">> ELSE <<>>)
    \o (IF In("traction_margin_low", triggers) THEN <<"slip risk elevated">> ELSE <<>>)
    \o (IF In("obstacle_close", triggers) /\ latest.obstacle_distance_m # NO_OBSTACLE
        THEN <<"obstacle at">> ELSE <<>>)
    \o (IF In("low_gnss_conf", triggers) THEN <<"GNSS confidence">> ELSE <<>>)

Snapshot(latest) ==
    [tick |-> latest.tick, overall_risk |-> latest.overall_risk,
     rollover_risk |-> latest.rollover_risk, slip_risk |-> latest.slip_risk,
     obstacle_risk |-> latest.obstacle_risk,
     gnss_confidence |-> latest.gnss_confidence,
     grade_pct |-> latest.grade_pct, roll_deg |-> latest.roll_deg,
     speed_kph |-> latest.speed_kph,
     obstacle_distance_m |-> latest.obstacle_distance_m]

\* the proposal of maybe_generate_proposal and its audit entry
NewProposal(S, latest) ==
    [id |-> S.next_proposal_id, title |-> Title(Triggers(latest)),
     rationale |-> Bits(latest, Triggers(latest)), status |-> "PENDING",
     snapshot |-> Snapshot(latest)]

ProposalEntry(proposal) ==
    AuditEntry("proposal", "Proposal", proposal.id, proposal.title, "",
               proposal.rationale)

\* variant: the cap checked with > instead of >=
maybe_generate_proposal_CapOffByOne(S, latest) ==
    IF Len(SelectPending(S.proposals)) > PENDING_CAP THEN S
    ELSE IF Triggers(latest) = <<>> THEN S
    ELSE log_audit([S EXCEPT !.proposals = Append(S.proposals, NewProposal(S, latest)),
                             !.next_proposal_id = S.next_proposal_id + 1],
                   ProposalEntry(NewProposal(S, latest)))

\* variant: a row that fires no trigger expires the PENDING proposals
maybe_generate_proposal_ExpiresPending(S, latest) ==
    IF Len(SelectPending(S.proposals)) >= PENDING_CAP THEN S
    ELSE IF Triggers(latest) = <<>>
    THEN [S EXCEPT !.proposals =
              [i \in 1..Len(S.proposals) |->
                  IF S.proposals[i].status = "PENDING"
                  THEN [S.proposals[i] EXCEPT !.status = "EXPIRED"]
                  ELSE S.proposals[i]]]
    ELSE log_audit([S EXCEPT !.proposals = Append(S.proposals, NewProposal(S, latest)),
                             !.next_proposal_id = S.next_proposal_id + 1],
                   ProposalEntry(NewProposal(S, latest)))

\* variant: ss.next_proposal_id += 1 left out
maybe_generate_proposal_NoIncrement(S, latest) ==
    IF Len(SelectPending(S.proposals)) >= PENDING_CAP THEN S
    ELSE IF Triggers(latest) = <<>> THEN S
    ELSE log_audit([S EXCEPT !.proposals = Append(S.proposals, NewProposal(S, latest))],
                   ProposalEntry(NewProposal(S, latest)))

maybe_generate_proposal(S, latest) ==
    LET open_pending == SelectPending(S.proposals)
        triggers == Triggers(latest)
        proposal == NewProposal(S, latest)
    IN  IF Len(open_pending) >= PENDING_CAP THEN S
        ELSE IF triggers = <<>> THEN S
        ELSE log_audit([S EXCEPT !.proposals = Append(S.proposals, proposal),
                                 !.next_proposal_id = S.next_proposal_id + 1],
                       ProposalEntry(proposal))

\* variant: old read after the assignment to prop.status
update_proposal_status_OldReadLate(S, i, new_status) ==
    LET prop == S.proposals[i]
    IN  log_audit([S EXCEPT !.proposals[i].status = new_status],
                  AuditEntry("decision", new_status, prop.id, prop.title,
                             new_status, <<>>))

\* update_proposal_status(prop, new_status), prop being S.proposals[i]
update_proposal_status(S, i, new_status) ==
    LET prop == S.proposals[i]
        old == prop.status
    IN  log_audit([S EXCEPT !.proposals[i].status = new_status],
                  AuditEntry("decision", new_status, prop.id, prop.title, old, <<>>))

\* ------------------------------------------------------------------ script run

Control(summary) == AuditEntry("control", summary, 0, "", "", <<>>)

\* variant: ss.running = not ss.running
StartButton_Toggles(S) ==
    log_audit([S EXCEPT !.running = ~S.running, !.since_update = 0],
              Control("Simulation started"))

\* the Start, Pause and Reset buttons
StartButton(S) ==
    log_audit([S EXCEPT !.running = TRUE, !.since_update = 0],
              Control("Simulation started"))

PauseButton(S) ==
    log_audit([S EXCEPT !.running = FALSE], Control("Simulation paused"))

\* variant: init_state assigns only the keys the session state lacks
ResetButton_OnlyMissingKeys ==
    log_audit([tick |-> tick, running |-> running, since_update |-> since_update,
               history |-> history, proposals |-> proposals, audit |-> audit,
               next_proposal_id |-> next_proposal_id, all |-> auditAll],
              Control("Simulation reset"))

ResetButton ==
    log_audit(init_state, Control("Simulation reset"))

\* variant: ss.running not tested
TickDue_IgnoresRunning(S) == S.since_update >= DT_SECONDS

\* ss.running and (time.time() - ss.last_update) >= DT_SECONDS
TickDue(S) == S.running /\ S.since_update >= DT_SECONDS

IsAlert(row) == row.state \in {"HIGH", "CRITICAL"}

\* the alert entry of the simulation step
AlertEntry(row) == AuditEntry("alert", row.state, row.tick, "", "", <<>>)

\* variant: maybe_generate_proposal called before the alert is logged
SimulationStep_ProposalFirst(S, d) ==
    LET prev_row == IF S.history # <<>> THEN S.history[Len(S.history)] ELSE None
        latest_row == generate_tick(prev_row, S.tick, d)
        S1 == [S EXCEPT !.tick = latest_row.tick,
                        !.history = LastN(Append(S.history, latest_row),
                                          HISTORY_KEEP),
                        !.since_update = 0]
        S2 == maybe_generate_proposal(S1, latest_row)
    IN  IF IsAlert(latest_row) THEN log_audit(S2, AlertEntry(latest_row)) ELSE S2

\* variant: ss.history[:600] instead of ss.history[-600:]
SimulationStep_KeepsOldest(S, d) ==
    LET prev_row == IF S.history # <<>> THEN S.history[Len(S.history)] ELSE None
        latest_row == generate_tick(prev_row, S.tick, d)
        S1 == [S EXCEPT !.tick = latest_row.tick,
                        !.history = SubSeq(Append(S.history, latest_row), 1,
                                           Min2(Len(S.history) + 1, HISTORY_KEEP)),
                        !.since_update = 0]
        S2 == IF IsAlert(latest_row) THEN log_audit(S1, AlertEntry(latest_row))
              ELSE S1
    IN  maybe_generate_proposal(S2, latest_row)

\* the body of the simulation step
SimulationStep(S, d) ==
    LET prev_row == IF S.history # <<>> THEN S.history[Len(S.history)] ELSE None
        latest_row == generate_tick(prev_row, S.tick, d)
        S1 == [S EXCEPT !.tick = latest_row.tick,
                        !.history = LastN(Append(S.history, latest_row),
                                          HISTORY_KEEP),
                        !.since_update = 0]
        S2 == IF IsAlert(latest_row) THEN log_audit(S1, AlertEntry(latest_row))
              ELSE S1
    IN  maybe_generate_proposal(S2, latest_row)

\* the proposals the select box offers with id pid (at most one)
Offered(S, pid) ==
    IF S.history = <<>> THEN {}
    ELSE {i \in 1..Len(S.proposals) : S.proposals[i].id = pid}

\* variant: the buttons lack disabled=(prop.status != "PENDING")
ButtonNeverDisabled(S, pid) == Offered(S, pid) # {}

\* the Approve / Reject / Defer button of the selected proposal is enabled
ButtonEnabled(S, pid) ==
    \E i \in Offered(S, pid) : S.proposals[i].status = "PENDING"

\* the select box on proposal pid and a click on the button of new_status:
\* nothing to click when pid is not offered or the button is disabled
DecisionButtons(S, pid, new_status) ==
    IF ButtonEnabled(S, pid)
    THEN update_proposal_status(S, CHOOSE i \in Offered(S, pid) : TRUE, new_status)
    ELSE S

NoClick == [button |-> "none", pid |-> 0, status |-> ""]

\* the session state after the buttons at the top of the script
AfterControls(S, click) ==
    IF click.button = "start" THEN StartButton(S)
    ELSE IF click.button = "pause" THEN PauseButton(S)
    ELSE IF click.button = "reset" THEN ResetButton
    ELSE S

\* One run of the script, started by the click: the control
\* buttons, then the simulation step, which ends the run with st.rerun(), and
\* only when no tick was due the main layout with the decision buttons.
ScriptRun(S, click, d) ==
    LET S1 == AfterControls(S, click)
    IN  IF TickDue(S1) THEN SimulationStep(S1, d)
        ELSE IF click.button = "decide"
        THEN DecisionButtons(S1, click.pid, click.status)
        ELSE S1

\* What the run did, with the click that started it. stepped: the simulation
\* step ran. outcome, of a click on a decision button: "decided" when
\* update_proposal_status was called, "preempted" when the simulation step
\* ended the run before the buttons, "disabled" when the proposal is not
\* PENDING, "not_offered" when no proposal has the id. wipedTick and
\* wipedProposals: ss.tick and len(ss.proposals) before a Reset.
Event(S, click) ==
    LET S1 == AfterControls(S, click)
        outcome == IF click.button # "decide" THEN ""
                   ELSE IF TickDue(S1) THEN "preempted"
                   ELSE IF ButtonEnabled(S1, click.pid) THEN "decided"
                   ELSE IF Offered(S1, click.pid) # {} THEN "disabled"
                   ELSE "not_offered"
        reset == click.button = "reset"
    IN  [op |-> click.button, pid |-> click.pid, status |-> click.status,
         stepped |-> TickDue(S1), outcome |-> outcome,
         wipedTick |-> IF reset THEN S.tick ELSE 0,
         wipedProposals |-> IF reset THEN Len(S.proposals) ELSE 0]

\* ------------------------------------------------------------------ draws

\* every noise term zero, no new obstacle
ZeroDraw ==
    [nSpeed |-> 0, nRpm |-> 0, nGradeStep |-> 0, nGrade |-> 0, nRoll |-> 0,
     nPitch |-> 0, uLoad |-> 0, nLoad |-> 0, nMoistStep |-> 0, nMoist |-> 0,
     nFirm |-> 0, nVis |-> 0, nHdop |-> 0, nJitter |-> 0,
     newObstacle |-> FALSE, obsDistance |-> 60, obsBearing |-> 0, nMicro |-> 0]

\* saturating noise: steep cross-slope at speed, an obstacle at 6 m, GNSS lost
Hazard ==
    [ZeroDraw EXCEPT !.nSpeed = 400, !.nGrade = 500, !.nRoll = 400,
                     !.nHdop = 3000, !.nJitter = 3000, !.nVis = -700,
                     !.newObstacle = TRUE, !.obsDistance = 60]

\* the noise that takes a Hazard row back to level ground, standstill and
\* good GNSS
Recover ==
    [ZeroDraw EXCEPT !.nSpeed = -400, !.nGrade = -220, !.nRoll = -180,
                     !.nHdop = -3000, !.nJitter = -3000, !.nVis = 700]

\* GNSS lost, everything else calm
GnssLoss ==
    [ZeroDraw EXCEPT !.nHdop = 3000, !.nJitter = 3000, !.nVis = -700]

\* from the cold-start defaults: speed 3.0, grade 21.5, roll 13.8, firmness
\* 0.700, which puts rollover_risk and slip_risk at exactly 70
EdgeA ==
    [ZeroDraw EXCEPT !.nSpeed = 25, !.nGrade = 215, !.nRoll = 132, !.nFirm = 4]

\* from the cold-start defaults: speed 5.7, grade 9.2, roll 11.5, firmness
\* 0.788, hdop 1.890, jitter 1.596 and an obstacle at 20 m, which puts
\* obstacle_risk at exactly 60, gnss_confidence at exactly 55 and
\* overall_risk at exactly 65
EdgeB ==
    [ZeroDraw EXCEPT !.nSpeed = 52, !.nGrade = 92, !.nRoll = 113, !.nFirm = 92,
                     !.nHdop = 1088, !.nJitter = 1291,
                     !.newObstacle = TRUE, !.obsDistance = 200]

\* the draws of a tick generated from the cold-start defaults
ColdDraws == {ZeroDraw, Hazard}

\* the draws of a tick generated from a previous row
WarmDraws == {Hazard, Recover}

\* ------------------------------------------------------------------ actions

Cur ==
    [tick |-> tick, running |-> running, since_update |-> since_update,
     history |-> history, proposals |-> proposals, audit |-> audit,
     next_proposal_id |-> next_proposal_id, all |-> auditAll]

Install(S) ==
    /\ tick' = S.tick
    /\ running' = S.running
    /\ since_update' = S.since_update
    /\ history' = S.history
    /\ proposals' = S.proposals
    /\ audit' = S.audit
    /\ next_proposal_id' = S.next_proposal_id
    /\ auditAll' = S.all

Decisions == {"APPROVED", "REJECTED", "DEFERRED"}

\* entries of kind k appended since init_state, the Reset's own entry aside
Count(k) ==
    Cardinality({i \in 1..Len(auditAll) :
        auditAll[i].kind = k /\ auditAll[i].summary # "Simulation reset"})

\* A script run started by the click. The tick it generates takes its draws
\* from cold (no previous row) or warm; a session has at most maxTick ticks
\* and maxDecisions decisions.
Run(click, cold, warm, maxTick, maxDecisions) ==
    LET e == Event(Cur, click)
        draws == IF ~e.stepped THEN {ZeroDraw}
                 ELSE IF history = <<>> THEN cold ELSE warm
    IN  /\ e.stepped => tick < maxTick
        /\ e.outcome = "decided" => Count("decision") < maxDecisions
        /\ \E d \in draws : Install(ScriptRun(Cur, click, d))
        /\ ev' = e
        /\ UNCHANGED <<input, output>>

Click(b) == [button |-> b, pid |-> 0, status |-> ""]

\* The clicks on a decision button with the select box on proposal pid; the
\* id next_proposal_id is the one no proposal has. The button's status is
\* read only by update_proposal_status and the selection only by the decision
\* buttons, so one click stands for those that start the same run.
DecideClicks ==
    {c \in [button : {"decide"}, pid : 1..next_proposal_id, status : Decisions] :
        \/ ~TickDue(Cur) /\ ButtonEnabled(Cur, c.pid)
        \/ ~TickDue(Cur) /\ c.status = "APPROVED"
        \/ c.status = "APPROVED" /\ c.pid = 1}

Init ==
    /\ tick = init_state.tick
    /\ running = init_state.running
    /\ since_update = init_state.since_update
    /\ history = init_state.history
    /\ proposals = init_state.proposals
    /\ audit = init_state.audit
    /\ next_proposal_id = init_state.next_proposal_id
    /\ auditAll = init_state.all
    /\ ev = [op |-> "init", pid |-> 0, status |-> "", stepped |-> FALSE,
             outcome |-> "", wipedTick |-> 0, wipedProposals |-> 0]
    /\ input = None
    /\ output = <<>>

\* time passes between two script runs, up to maxElapsed since ss.last_update
TimePasses(maxElapsed) ==
    /\ since_update < maxElapsed
    /\ since_update' = since_update + 1
    /\ ev' = [op |-> "time", pid |-> 0, status |-> "", stepped |-> FALSE,
              outcome |-> "", wipedTick |-> 0, wipedProposals |-> 0]
    /\ UNCHANGED <<tick, running, history, proposals, audit,
                   next_proposal_id, auditAll, input, output>>

\* ---- Spec: every button and the clock interleaved, short sessions

Start ==
    /\ Count("control") < MaxControls
    /\ Run(Click("start"), ColdDraws, WarmDraws, MaxTick, MaxDecisions)

Pause ==
    /\ Count("control") < MaxControls
    /\ Run(Click("pause"), ColdDraws, WarmDraws, MaxTick, MaxDecisions)

Reset == Run(Click("reset"), ColdDraws, WarmDraws, MaxTick, MaxDecisions)

Poll == Run(NoClick, ColdDraws, WarmDraws, MaxTick, MaxDecisions)

Decide ==
    \E c \in DecideClicks : Run(c, ColdDraws, WarmDraws, MaxTick, MaxDecisions)

AdvanceTime == TimePasses(MaxElapsed)

Next == Start \/ Pause \/ Reset \/ Poll \/ Decide \/ AdvanceTime

Spec == Init /\ [][Next]_vars

\* ---- SpecCap: one session, started once and long enough to fill the
\* pending-proposal cap, that a Pause or a Reset may end

CapCold == {Hazard, GnssLoss, EdgeA, EdgeB}

CapWarm == {Hazard}

StartOnce ==
    /\ auditAll = <<>>
    /\ Run(Click("start"), CapCold, CapWarm, MaxTickCap, MaxDecisionsCap)

PauseOnce ==
    /\ running
    /\ Run(Click("pause"), CapCold, CapWarm, MaxTickCap, MaxDecisionsCap)

ResetCap == Run(Click("reset"), CapCold, CapWarm, MaxTickCap, MaxDecisionsCap)

PollCap == Run(NoClick, CapCold, CapWarm, MaxTickCap, MaxDecisionsCap)

DecideCap ==
    \E c \in DecideClicks : Run(c, CapCold, CapWarm, MaxTickCap, MaxDecisionsCap)

NextCap ==
    StartOnce \/ PauseOnce \/ ResetCap \/ PollCap \/ DecideCap \/ AdvanceTime

SpecCap == Init /\ [][NextCap]_vars

\* ---- SpecAudit: Start and Pause in turn, past the audit log's capacity,
\* and a Reset once the log is full

StartTurn ==
    /\ ~running
    /\ Len(auditAll) < MaxAppendsDeep
    /\ Run(Click("start"), {ZeroDraw}, {ZeroDraw}, 0, 0)

PauseTurn ==
    /\ running
    /\ Len(auditAll) < MaxAppendsDeep
    /\ Run(Click("pause"), {ZeroDraw}, {ZeroDraw}, 0, 0)

ResetFull ==
    /\ Len(audit) = AUDIT_KEEP
    /\ Run(Click("reset"), {ZeroDraw}, {ZeroDraw}, 0, 0)

NextAudit == StartTurn \/ PauseTurn \/ ResetFull

SpecAudit == Init /\ [][NextAudit]_vars

\* ---- SpecHistory: one Start, then a calm tick whenever one is due, past
\* the history's capacity

StartCalm ==
    /\ auditAll = <<>>
    /\ Run(Click("start"), {ZeroDraw}, {ZeroDraw}, MaxTickDeep, 0)

PollCalm == Run(NoClick, {ZeroDraw}, {ZeroDraw}, MaxTickDeep, 0)

TimeToTick == TimePasses(DT_SECONDS)

NextHistory == StartCalm \/ PollCalm \/ TimeToTick

SpecHistory == Init /\ [][NextHistory]_vars

\* ------------------------------------------------------------------ claims

\* the session state proper, the history variable ev aside
session == <<tick, running, since_update, history, proposals, audit,
             next_proposal_id, auditAll>>

\* the entries a step appended to the audit log
Appended == SubSeq(auditAll', Len(auditAll) + 1, Len(auditAll'))

\* C1: a proposal whose status is APPROVED, REJECTED or DEFERRED is never
\* changed again by a poll, Start, Pause or decision click (only a Reset
\* discards it), and a click on a decision button for a proposal that is not
\* PENDING, in a run that reaches the buttons, changes nothing.
C1_StatusTerminal ==
    [][ /\ \A i \in 1..Len(proposals) :
              proposals[i].status # "PENDING" =>
                  \/ ev'.op = "reset" /\ proposals' = <<>>
                  \/ i <= Len(proposals') /\ proposals'[i] = proposals[i]
        /\ ( /\ ev'.op = "decide"
             /\ ~ev'.stepped
             /\ \E i \in 1..Len(proposals) :
                    proposals[i].id = ev'.pid /\ proposals[i].status # "PENDING" )
           => UNCHANGED session
      ]_vars

\* a decision button was clicked for a proposal decided earlier
C1_Witness ==
    /\ ev.op = "decide"
    /\ ev.outcome = "disabled"
    /\ \E i \in 1..Len(proposals) :
           proposals[i].id = ev.pid /\ proposals[i].status \in Decisions

\* C2: a click on a decision button for a PENDING proposal, in a run that
\* reaches the buttons, sets that proposal's status to the button's, changes
\* no other proposal and appends exactly one entry, of kind decision with the
\* previous status PENDING; a click for an id no proposal has or for a decided
\* proposal changes nothing; and the run of a click that the simulation step
\* ends before the buttons decides nothing either.
C2_DecideAllOrNothing ==
    [][ ev'.op = "decide" =>
          LET hit == {i \in 1..Len(proposals) :
                         proposals[i].id = ev'.pid /\ proposals[i].status = "PENDING"}
          IN  IF ev'.stepped
              THEN /\ \A i \in 1..Len(proposals) : proposals'[i] = proposals[i]
                   /\ \A j \in 1..Len(Appended) : Appended[j].kind # "decision"
              ELSE IF hit # {}
              THEN \E i \in hit :
                     /\ ev'.status \in Decisions
                     /\ proposals' = [proposals EXCEPT ![i].status = ev'.status]
                     /\ Len(Appended) = 1
                     /\ Appended[1].kind = "decision"
                     /\ Appended[1].prev = "PENDING"
                     /\ Appended[1].ref = ev'.pid
                     /\ Appended[1].summary = ev'.status
                     /\ audit' = LastN(Append(audit, Appended[1]), AUDIT_KEEP)
                     /\ UNCHANGED <<tick, running, since_update, history,
                                    next_proposal_id>>
              ELSE UNCHANGED session
      ]_vars

\* one of two proposals was decided, the other is still PENDING, and the
\* audit log ends with the decision
C2_Witness ==
    /\ ev.op = "decide"
    /\ ev.outcome = "decided"
    /\ Len(proposals) = 2
    /\ \E i, j \in 1..2 :
           /\ proposals[i].id = ev.pid
           /\ proposals[i].status = ev.status
           /\ proposals[j].status = "PENDING"
    /\ audit[Len(audit)].kind = "decision"
    /\ audit[Len(audit)].prev = "PENDING"

\* the PENDING proposals
Pending == {i \in 1..Len(proposals) : proposals[i].status = "PENDING"}

\* C3: in every reachable state at most 4 proposals are PENDING.
C3_PendingAtMostFour == Cardinality(Pending) <= 4

\* a tick whose row fires a trigger was generated with 4 proposals PENDING,
\* and no proposal was created for it
C3_Witness ==
    /\ ev.stepped
    /\ Cardinality(Pending) = 4
    /\ Triggers(history[Len(history)]) # <<>>
    /\ \A i \in 1..Len(proposals) : proposals[i].snapshot.tick # tick

\* one of the strict trigger predicates holds for the row
StrictTrigger(row) ==
    \/ row.overall_risk > Pct(65)
    \/ row.rollover_risk > Pct(70)
    \/ row.slip_risk > Pct(70)
    \/ row.obstacle_risk > Pct(60)
    \/ row.gnss_confidence < Pct(55)

\* the entries of kind k among those a step appended to the audit log
AppendedOf(k) == {j \in 1..Len(Appended) : Appended[j].kind = k}

\* C4: a tick creates exactly one proposal, PENDING and with the row's
\* snapshot, and appends one proposal audit entry, if and only if fewer than
\* 4 proposals are PENDING and a strict trigger predicate holds for the row;
\* otherwise the proposals are unchanged and no proposal audit entry is
\* appended. A step that generates no tick creates no proposal.
C4_OneProposalIffQualifies ==
    [][ IF ev'.stepped
        THEN LET row == history'[Len(history')]
             IN  IF Cardinality(Pending) < 4 /\ StrictTrigger(row)
                 THEN /\ Len(proposals') = Len(proposals) + 1
                      /\ SubSeq(proposals', 1, Len(proposals)) = proposals
                      /\ proposals'[Len(proposals')].status = "PENDING"
                      /\ proposals'[Len(proposals')].snapshot = Snapshot(row)
                      /\ Cardinality(AppendedOf("proposal")) = 1
                 ELSE /\ proposals' = proposals
                      /\ AppendedOf("proposal") = {}
        ELSE /\ Len(proposals') <= Len(proposals)
             /\ AppendedOf("proposal") = {}
      ]_vars

\* 4 proposals were PENDING, one of them was decided, and the next tick
\* created a fifth proposal
C4_Witness ==
    /\ ev.stepped
    /\ Len(proposals) = 5
    /\ Cardinality(Pending) = 4
    /\ proposals[5].snapshot.tick = tick
    /\ \A i \in 1..4 : proposals[i].snapshot.tick = i

\* C5: the audit log holds at most 150 entries, and they are the most recent
\* (up to 150) of the entries appended since the session state was last
\* initialised, in append order.
C5_AuditBoundedFifo ==
    /\ Len(audit) <= 150
    /\ Len(audit) = Min2(Len(auditAll), 150)
    /\ \A k \in 1..Len(audit) :
           audit[k] = auditAll[Len(auditAll) - Len(audit) + k]

\* after 151 appends the log starts with the second entry appended, which
\* differs from the first, and ends with the 151st
C5_Witness ==
    /\ Len(auditAll) = 151
    /\ Len(audit) = 150
    /\ audit[1] = auditAll[2]
    /\ audit[1] # auditAll[1]
    /\ audit[150] = auditAll[151]

\* C6: the history holds at most 600 rows, each row's tick is one more than
\* its predecessor's, every tick is at least 1, and the last row's tick is
\* the tick counter.
C6_HistoryWindow ==
    /\ Len(history) <= 600
    /\ \A k \in 1..Len(history) : history[k].tick >= 1
    /\ \A k \in 1..Len(history) - 1 : history[k + 1].tick = history[k].tick + 1
    /\ history # <<>> => history[Len(history)].tick = tick

\* after 601 ticks the history holds the rows of ticks 2 to 601
C6_Witness ==
    /\ tick = 601
    /\ Len(history) = 600
    /\ history[1].tick = 2
    /\ history[600].tick = 601

\* C7: the ids of the proposals increase along the list, the first
\* proposal of a session has id 1, and the id counter is greater than every
\* id in the list.
C7_IdsIncreasing ==
    /\ \A i, j \in 1..Len(proposals) : i < j => proposals[i].id < proposals[j].id
    /\ proposals # <<>> => proposals[1].id = 1
    /\ \A i \in 1..Len(proposals) : proposals[i].id < next_proposal_id

\* a session begun by a Reset has created two proposals
C7_Witness ==
    /\ auditAll # <<>>
    /\ auditAll[1] = Control("Simulation reset")
    /\ Len(proposals) = 2
    /\ proposals[1].id = 1
    /\ proposals[2].id = 2
    /\ next_proposal_id = 3

\* C8: a script run without a button click generates a row if and only if
\* the simulation is running and at least 1 second has passed since
\* ss.last_update; it then appends exactly one row, adds 1 to the tick
\* counter and sets ss.last_update to now; otherwise it changes nothing. No
\* step but a Reset changes the history or the tick counter unless the
\* simulation is running and the second has passed.
C8_PollGated ==
    [][ /\ ev'.op = "none" =>
               IF running /\ since_update >= 1
               THEN /\ tick' = tick + 1
                    /\ Len(history') = Len(history) + 1
                    /\ SubSeq(history', 1, Len(history)) = history
                    /\ history'[Len(history')].tick = tick'
                    /\ since_update' = 0
                    /\ running' = running
               ELSE UNCHANGED session
        /\ ( ev'.op # "reset" /\ (history' # history \/ tick' # tick) )
               => running /\ since_update >= 1
      ]_vars

\* the simulation was paused after a tick, a second has passed, and the run
\* without a click has generated no row
C8_Witness ==
    /\ ev.op = "none"
    /\ ~ev.stepped
    /\ ~running
    /\ since_update >= 1
    /\ history # <<>>
    /\ auditAll[Len(auditAll)] = Control("Simulation paused")

\* C9: after a Reset the tick counter is 0, the simulation is not running,
\* the history and the proposals are empty, the id counter is 1 and the
\* audit log holds one entry, of kind control, for the reset; and the first
\* row of a history has tick 1 and is generated from the cold-start defaults.
C9_ResetColdStart ==
    [][ /\ ev'.op = "reset" =>
               /\ tick' = 0
               /\ running' = FALSE
               /\ history' = <<>>
               /\ proposals' = <<>>
               /\ next_proposal_id' = 1
               /\ Len(audit') = 1
               /\ audit'[1].kind = "control"
               /\ audit'[1].summary = "Simulation reset"
        /\ (history = <<>> /\ history' # <<>>) =>
               /\ Len(history') = 1
               /\ history'[1].tick = 1
               /\ \E d \in ColdDraws : history'[1] = generate_tick(None, 0, d)
      ]_vars

\* a Reset has discarded a session with ticks and proposals
C9_Witness ==
    /\ ev.op = "reset"
    /\ ev.wipedTick >= 1
    /\ ev.wipedProposals >= 1
    /\ tick = 0
    /\ history = <<>>

\* C10: a tick appends its row to the history, then an alert entry if and
\* only if the row's state is HIGH or CRITICAL, whatever the number of
\* PENDING proposals, then the proposal entry if a proposal was created: the
\* entries the tick appends to the audit log are the alert entry, if any,
\* followed by the proposal entry, if any, both for the row of the tick.
C10_AlertBeforeProposal ==
    [][ ev'.stepped =>
          LET row == history'[Len(history')]
              created == Len(proposals') > Len(proposals)
              alerts == IF row.state \in {"HIGH", "CRITICAL"} THEN 1 ELSE 0
          IN  /\ row.tick = tick'
              /\ Len(Appended) = alerts + (IF created THEN 1 ELSE 0)
              /\ alerts = 1 => /\ Appended[1].kind = "alert"
                               /\ Appended[1].ref = row.tick
                               /\ Appended[1].summary = row.state
              /\ created => /\ Appended[Len(Appended)].kind = "proposal"
                            /\ Appended[Len(Appended)].ref
                                   = proposals'[Len(proposals')].id
                            /\ proposals'[Len(proposals')].snapshot.tick = row.tick
      ]_vars

\* the last tick appended an alert entry and then a proposal entry
C10_Witness ==
    /\ ev.stepped
    /\ Len(auditAll) >= 2
    /\ auditAll[Len(auditAll) - 1].kind = "alert"
    /\ auditAll[Len(auditAll) - 1].ref = tick
    /\ auditAll[Len(auditAll)].kind = "proposal"
    /\ proposals # <<>>
    /\ proposals[Len(proposals)].snapshot.tick = tick
    /\ auditAll[Len(auditAll)].ref = proposals[Len(proposals)].id

\* ------------------------------------------------------------------ functions
\* ---- SpecFunctions: Title, classify_state, the risk engine and
\* generate_tick applied on their own, each to one of a set of arguments

\* the session state is left as init_state makes it
Untouched ==
    /\ tick = init_state.tick
    /\ running = init_state.running
    /\ since_update = init_state.since_update
    /\ history = init_state.history
    /\ proposals = init_state.proposals
    /\ audit = init_state.audit
    /\ next_proposal_id = init_state.next_proposal_id
    /\ auditAll = init_state.all
    /\ ev = [op |-> "init", pid |-> 0, status |-> "", stepped |-> FALSE,
             outcome |-> "", wipedTick |-> 0, wipedProposals |-> 0]

\* the function fn returns result
Return(fn, result) ==
    /\ input.fn = fn
    /\ output = <<>>
    /\ output' = <<result>>
    /\ UNCHANGED <<tick, running, since_update, history, proposals, audit,
                   next_proposal_id, auditAll, ev, input>>

TriggerNames ==
    {"high_overall_risk", "rollover_exposure", "traction_margin_low",
     "obstacle_close", "low_gnss_conf"}

\* the non-empty lists of distinct triggers, in every order
TriggerLists ==
    {s \in UNION {[1..n -> TriggerNames] : n \in 1..5} :
        \A i, j \in DOMAIN s : i # j => s[i] # s[j]}

TitleInputs == {[fn |-> "Title", triggers |-> s] : s \in TriggerLists}

ApplyTitle == Return("Title", Title(input.triggers))

\* overall risks at, one unit under and one unit over the bucket boundaries,
\* and at every whole percent
ClassifyInputs ==
    {[fn |-> "classify_state", overall_risk |-> v] :
        v \in {Pct(n) : n \in 0..100}
              \cup {Pct(n) - 1 : n \in {25, 50, 75, 100}}
              \cup {Pct(n) + 1 : n \in {0, 25, 50, 75}}}

ApplyClassify == Return("classify_state", classify_state(input.overall_risk))

\* the risk fields of a row from its other fields, as generate_tick computes them
compute_risks(f) ==
    LET rollover_risk == compute_rollover_risk(f.grade_pct, f.roll_deg, f.speed_kph)
        slip_risk == compute_slip_risk(f.grade_pct, f.moisture_index,
                                       f.ground_firmness, f.speed_kph)
        obstacle_risk == compute_obstacle_risk(f.obstacle_distance_m, f.speed_kph)
        gnss_conf == compute_gnss_confidence(f.gnss_hdop, f.gnss_jitter_m,
                                             f.visibility)
    IN  [rollover_risk |-> rollover_risk, slip_risk |-> slip_risk,
         obstacle_risk |-> obstacle_risk, gnss_confidence |-> gnss_conf,
         overall_risk |-> compute_overall_risk(rollover_risk, slip_risk,
                                               obstacle_risk, gnss_conf)]

\* the ends of the generator's clamp ranges, with the values between for the
\* fields that enter a risk with a sign or a threshold
RiskInputs ==
    [fn : {"compute_risks"},
     speed_kph : {0, 60, 120}, grade_pct : {-220, 0, 220},
     roll_deg : {-180, 0, 180}, moisture_index : {100, 950},
     ground_firmness : {250, 950}, gnss_hdop : {500, 3500},
     gnss_jitter_m : {150, 3000}, visibility : {300, 1000},
     obstacle_distance_m : {60, 800, NO_OBSTACLE}]

ApplyRisks == Return("compute_risks", compute_risks(input))

\* the greatest distance of the obstacle-risk arguments, in tenths
MaxProbeDistance == 810

\* speeds in tenths: a standstill, below, at and above 0.36 km/h (0.1 m/s),
\* 3.6 km/h (1 m/s), the generator's maximum of 12 km/h, and 36 km/h (10 m/s)
ProbeSpeeds == {0, 1, 3, 4, 9, 18, 36, 72, 90, 119, 120, 360}

ObstacleInputs ==
    [fn : {"compute_obstacle_risk"},
     distance_m : 0..MaxProbeDistance \cup {NO_OBSTACLE},
     speed_kph : ProbeSpeeds]

ApplyObstacleRisk ==
    Return("compute_obstacle_risk",
           compute_obstacle_risk(input.distance_m, input.speed_kph))

\* a new obstacle at 35 m, everything else calm
FarObstacle ==
    [ZeroDraw EXCEPT !.newObstacle = TRUE, !.obsDistance = 350, !.obsBearing = 1200]

FnDraws == {ZeroDraw, Hazard, Recover, GnssLoss, EdgeA, EdgeB, FarObstacle}

\* A row of tick t as the generator returns it: the calm first row with the
\* fuel, speed and obstacle distance given, and gear, rpm, shift hours, risks
\* and state as generate_tick derives them.
PrevRow(t, fuel_pct, speed_kph, obstacle_distance_m) ==
    LET f == [generate_tick(None, 0, ZeroDraw) EXCEPT
                 !.tick = t, !.shift_hours = 120 + t,
                 !.fuel_pct = fuel_pct, !.speed_kph = speed_kph,
                 !.gear = clamp(RoundHalfEven(30 + speed_kph, 30), 1, 4),
                 !.engine_rpm = clamp(800 + 12 * speed_kph, 800, 2100),
                 !.obstacle_distance_m = obstacle_distance_m]
        r == compute_risks(f)
    IN  [f EXCEPT !.rollover_risk = r.rollover_risk, !.slip_risk = r.slip_risk,
                  !.obstacle_risk = r.obstacle_risk,
                  !.gnss_confidence = r.gnss_confidence,
                  !.overall_risk = r.overall_risk,
                  !.state = classify_state(r.overall_risk)]

\* ticks before a plain tick, a grade step (50) and a moisture step (120)
PrevTicks == {1, 49, 119}

\* fuel at the floor, within one tick's burn of it, and above
PrevFuels == {5000, 5020, 5030, 5100, 5150, 5151, 50000, 89970}

PrevSpeeds == {0, 40, 120}

\* an obstacle near, far, within one relaxing step of 80 m, at 80 m, and none
PrevDistances == {60, 350, 500, 769, 770, 771, 800, NO_OBSTACLE}

GenerateInputs ==
    {[fn |-> "generate_tick", prev |-> None, tick |-> 0, d |-> d] : d \in FnDraws}
    \cup {[fn |-> "generate_tick", prev |-> PrevRow(t, fu, sp, di), tick |-> t,
           d |-> d] :
            t \in PrevTicks, fu \in PrevFuels, sp \in PrevSpeeds,
            di \in PrevDistances, d \in FnDraws}

ApplyGenerate ==
    Return("generate_tick", generate_tick(input.prev, input.tick, input.d))

InitFunctions ==
    /\ Untouched
    /\ input \in TitleInputs \cup ClassifyInputs \cup RiskInputs
                 \cup ObstacleInputs \cup GenerateInputs
    /\ output = <<>>

NextFunctions ==
    ApplyTitle \/ ApplyClassify \/ ApplyRisks \/ ApplyObstacleRisk \/ ApplyGenerate

SpecFunctions == InitFunctions /\ [][NextFunctions]_vars

\* the function fn has returned
Returned(fn) == input.fn = fn /\ output # <<>>

\* the triggers of the list Title was applied to
Fired == {input.triggers[i] : i \in DOMAIN input.triggers}

\* C11: the title of a proposal is that of obstacle_close if it fired, else
\* of rollover_exposure, else of traction_margin_low, else of low_gnss_conf,
\* whatever the order of the triggers in the list, and it is the generic
\* title exactly when high_overall_risk alone fired.
C11_TitleByPriority ==
    Returned("Title") =>
        /\ "obstacle_close" \in Fired
               => output[1] = "Pause travel - obstacle within unsafe margin"
        /\ "rollover_exposure" \in Fired /\ "obstacle_close" \notin Fired
               => output[1] = "Reduce cross-slope exposure and slow to crawl"
        /\ ( /\ "traction_margin_low" \in Fired
             /\ Fired \cap {"obstacle_close", "rollover_exposure"} = {} )
               => output[1] = "Back out, re-cut access path, and reassess ground"
        /\ ( /\ "low_gnss_conf" \in Fired
             /\ Fired \cap {"obstacle_close", "rollover_exposure",
                            "traction_margin_low"} = {} )
               => output[1] = "Switch to local references - GNSS degraded"
        /\ output[1] = "Hold profile and reduce speed until risk stabilizes"
               <=> Fired = {"high_overall_risk"}

\* all five triggers fired, in evaluation order, and obstacle_close, the
\* fourth of the list, gave the title
C11_Witness ==
    /\ Returned("Title")
    /\ input.triggers = <<"high_overall_risk", "rollover_exposure",
                          "traction_margin_low", "obstacle_close",
                          "low_gnss_conf">>
    /\ output[1] = "Pause travel - obstacle within unsafe margin"

\* C12: classify_state gives STABLE under 25, ELEVATED from 25 to under 50,
\* HIGH from 50 to under 75 and CRITICAL from 75, and the state of every row
\* generate_tick returns is classify_state of the row's overall_risk.
C12_ClassifyBuckets ==
    /\ Returned("classify_state") =>
           LET v == input.overall_risk
           IN  /\ v < Pct(25) => output[1] = "STABLE"
               /\ Pct(25) <= v /\ v < Pct(50) => output[1] = "ELEVATED"
               /\ Pct(50) <= v /\ v < Pct(75) => output[1] = "HIGH"
               /\ v >= Pct(75) => output[1] = "CRITICAL"
    /\ Returned("generate_tick") =>
           LET v == output[1].overall_risk
           IN  output[1].state = IF v < Pct(25) THEN "STABLE"
                                 ELSE IF v < Pct(50) THEN "ELEVATED"
                                 ELSE IF v < Pct(75) THEN "HIGH"
                                 ELSE "CRITICAL"

\* an overall risk of exactly 75 was classified CRITICAL
C12_Witness ==
    /\ Returned("classify_state")
    /\ input.overall_risk = Pct(75)
    /\ output[1] = "CRITICAL"

\* the five risk fields of r are within [0, 100]
RisksInRange(r) ==
    /\ 0 <= r.rollover_risk /\ r.rollover_risk <= Pct(100)
    /\ 0 <= r.slip_risk /\ r.slip_risk <= Pct(100)
    /\ 0 <= r.obstacle_risk /\ r.obstacle_risk <= Pct(100)
    /\ 0 <= r.gnss_confidence /\ r.gnss_confidence <= Pct(100)
    /\ 0 <= r.overall_risk /\ r.overall_risk <= Pct(100)

\* C13: rollover_risk, slip_risk, obstacle_risk, gnss_confidence and
\* overall_risk are within [0, 100] for every combination of field values at
\* the ends of the generator's clamp ranges, and in every row generate_tick
\* returns.
C13_RisksWithinRange ==
    /\ Returned("compute_risks") => RisksInRange(output[1])
    /\ Returned("generate_tick") => RisksInRange(output[1])

\* the weighted sums are over 100 (rollover 110, slip 113.25, overall 119.3
\* with the GNSS penalty at its maximum of 23.5) and the risks are 100
C13_Witness ==
    /\ Returned("compute_risks")
    /\ input.speed_kph = 120 /\ input.grade_pct = 220 /\ input.roll_deg = 180
    /\ input.moisture_index = 950 /\ input.ground_firmness = 250
    /\ input.gnss_hdop = 3500 /\ input.gnss_jitter_m = 3000
    /\ input.visibility = 300 /\ input.obstacle_distance_m = 60
    /\ output[1].rollover_risk = Pct(100)
    /\ output[1].slip_risk = Pct(100)
    /\ output[1].gnss_confidence = Pct(6)
    /\ output[1].overall_risk = Pct(100)

\* ttc > k seconds, for ttc = distance / max(speed_kph / 3.6, 0.1) with the
\* distance D and the speed V in tenths: D/10 > k*V/36 and D/10 > k/10
TtcOver(D, V, k) == 36 * D > 10 * k * V /\ D > k

\* C14: compute_obstacle_risk is 0 for a distance of 80 or more and for the
\* distance 999, whatever the speed; otherwise it is 10 for ttc > 40, 35 for
\* 20 < ttc <= 40, 60 for 10 < ttc <= 20 and 85 for ttc <= 10, where a speed
\* under 0.1 m/s counts as 0.1 m/s, so that at a standstill ttc is ten times
\* the distance.
C14_ObstacleRiskByTtc ==
    Returned("compute_obstacle_risk") =>
        LET D == input.distance_m
            V == input.speed_kph
            r == output[1]
        IN  /\ r \in {0, Pct(10), Pct(35), Pct(60), Pct(85)}
            /\ (D >= 800 \/ D = NO_OBSTACLE) => r = 0
            /\ (D < 800 /\ D # NO_OBSTACLE) =>
                   /\ TtcOver(D, V, 40) => r = Pct(10)
                   /\ TtcOver(D, V, 20) /\ ~TtcOver(D, V, 40) => r = Pct(35)
                   /\ TtcOver(D, V, 10) /\ ~TtcOver(D, V, 20) => r = Pct(60)
                   /\ ~TtcOver(D, V, 10) => r = Pct(85)
                   /\ V = 0 => r = IF D > 40 THEN Pct(10)
                                   ELSE IF D > 20 THEN Pct(35)
                                   ELSE IF D > 10 THEN Pct(60)
                                   ELSE Pct(85)

\* an obstacle at 3 m of a machine at a standstill: ttc 30 s, risk 35
C14_Witness ==
    /\ Returned("compute_obstacle_risk")
    /\ input.distance_m = 30
    /\ input.speed_kph = 0
    /\ output[1] = Pct(35)

\* ---- SpecControls: Start and Pause clicked in any order, whatever the
\* running flag, around the ticks of a session with a proposal

\* clicks on Start and Pause in the specification of the control buttons
MaxClicks == 3

\* ticks of its session
MaxTickControls == 2

ControlsCold == {Hazard}

ControlsWarm == {Hazard, Recover}

StartAny ==
    /\ Count("control") < MaxClicks
    /\ Run(Click("start"), ControlsCold, ControlsWarm, MaxTickControls, 0)

PauseAny ==
    /\ Count("control") < MaxClicks
    /\ Run(Click("pause"), ControlsCold, ControlsWarm, MaxTickControls, 0)

PollControls == Run(NoClick, ControlsCold, ControlsWarm, MaxTickControls, 0)

NextControls == StartAny \/ PauseAny \/ PollControls \/ AdvanceTime

SpecControls == Init /\ [][NextControls]_vars

\* C15: a script run without a click, whether or not it generates a tick or
\* creates a proposal, a Start, a Pause and the passing of time leave every
\* existing proposal in the list at its position with its id, title,
\* rationale, snapshot and status.
C15_ProposalsKept ==
    [][ ev'.op \in {"none", "start", "pause", "time"} =>
            /\ Len(proposals') >= Len(proposals)
            /\ \A i \in 1..Len(proposals) :
                   /\ proposals'[i].id = proposals[i].id
                   /\ proposals'[i].title = proposals[i].title
                   /\ proposals'[i].rationale = proposals[i].rationale
                   /\ proposals'[i].snapshot = proposals[i].snapshot
                   /\ proposals'[i].status = proposals[i].status
      ]_vars

\* the proposal of tick 1 is still PENDING after a Pause, a second Start
\* and tick 2, whose row fires no trigger
C15_Witness ==
    /\ ev.op = "none"
    /\ Count("control") = 3
    /\ ev.stepped
    /\ tick = 2
    /\ Triggers(history[2]) = <<>>
    /\ Len(proposals) = 1
    /\ proposals[1].snapshot.tick = 1
    /\ proposals[1].status = "PENDING"

C17_RowsReproducible ==
    \A k \in 1..Len(history) :
        history[k] = generate_tick(IF history[k].tick = 1 THEN None
                                   ELSE history[k - 1],
                                   history[k].tick - 1, ZeroDraw)

\* C18: the fuel of a row generated from a previous row is the greater of 5
\* and the previous fuel less 0.03 + 0.01 * the new speed; it is never above
\* the previous fuel, never under 5, and 5 when the previous fuel is 5.
C18_FuelBurnsToFloor ==
    Returned("generate_tick") =>
        /\ output[1].fuel_pct >= 5000
        /\ input.prev # None =>
               /\ output[1].fuel_pct
                      = Max2(5000, input.prev.fuel_pct
                                       - (30 + output[1].speed_kph))
               /\ output[1].fuel_pct <= input.prev.fuel_pct
               /\ input.prev.fuel_pct = 5000 => output[1].fuel_pct = 5000

\* from 5.02 the burn of a tick at 12 km/h (0.15) would go under the floor:
\* the fuel is 5
C18_Witness ==
    /\ Returned("generate_tick")
    /\ input.prev # None
    /\ input.prev.fuel_pct = 5020
    /\ output[1].speed_kph = 120
    /\ output[1].fuel_pct = 5000

\* C19: the row generated without a previous row carries the cold-start
\* defaults: speed 0, gear 1, rpm 800, grade 0, fuel 90, no obstacle, and
\* shift hours 2.0; the per-tick dynamics do not touch it.
C19_ColdRowIsDefaults ==
    (Returned("generate_tick") /\ input.prev = None) =>
        /\ output[1].speed_kph = 0
        /\ output[1].gear = 1
        /\ output[1].engine_rpm = 800
        /\ output[1].grade_pct = 0
        /\ output[1].fuel_pct = 90000
        /\ output[1].obstacle_distance_m = NO_OBSTACLE
        /\ output[1].shift_hours = 120

RowOf(proposal) ==
    CHOOSE k \in 1..Len(history) : history[k].tick = proposal.snapshot.tick

\* C21: every proposal has a non-empty rationale with as many clauses as the
\* row it was created from fires triggers; the obstacle clause alone is
\* conditional, and the obstacle_close trigger never fires on a row whose
\* distance is the sentinel 999, whose obstacle_risk is 0.
C21_ClausePerTrigger ==
    /\ \A k \in 1..Len(history) :
           history[k].obstacle_distance_m = NO_OBSTACLE =>
               /\ history[k].obstacle_risk = 0
               /\ ~In("obstacle_close", Triggers(history[k]))
    /\ \A i \in 1..Len(proposals) :
           /\ \E k \in 1..Len(history) :
                  history[k].tick = proposals[i].snapshot.tick
           /\ proposals[i].rationale # <<>>
           /\ Len(proposals[i].rationale)
                  = Len(Triggers(history[RowOf(proposals[i])]))
           /\ In("obstacle at", proposals[i].rationale)
                  <=> In("obstacle_close", Triggers(history[RowOf(proposals[i])]))

\* a proposal from a row without an obstacle whose only clause is the GNSS
\* one, and a later proposal with the obstacle clause among several
C21_Witness ==
    \E i, j \in 1..Len(proposals) :
        /\ i < j
        /\ proposals[i].snapshot.obstacle_distance_m = NO_OBSTACLE
        /\ proposals[i].rationale = <<"GNSS confidence">>
        /\ In("obstacle at", proposals[j].rationale)
        /\ Len(proposals[j].rationale) >= 3

\* ---- SpecLive: a session of unboundedly many clicks and script runs under
\* fair polling and advancing time

MaxTickLive == 2
MaxPauseAt == 2

\* A script run of the session. The history variable auditAll keeps the
\* entries ss.audit keeps, so that unboundedly many clicks give finitely many
\* states; the rows are calm.
RunLive(click) ==
    LET e == Event(Cur, click)
        S == ScriptRun(Cur, click, ZeroDraw)
    IN  /\ e.stepped => tick < MaxTickLive
        /\ Install([S EXCEPT !.all = LastN(S.all, AUDIT_KEEP)])
        /\ ev' = e
        /\ UNCHANGED <<input, output>>

\* Start, clicked whether or not the simulation runs
StartLive == RunLive(Click("start"))

\* Pause, clicked early in a session only
PauseLive ==
    /\ Len(audit) < MaxPauseAt
    /\ RunLive(Click("pause"))

ResetLive == RunLive(Click("reset"))

\* a script run without a click
PollLive == RunLive(NoClick)

\* the script run that finds a tick due
TickLive == PollLive /\ ev'.stepped

NextLive == StartLive \/ PauseLive \/ ResetLive \/ PollLive \/ AdvanceTime

\* ENABLED <<PollLive>>_vars: a run that is due generates a tick, and a run
\* that is not due changes ev alone
PollEnabled ==
    IF TickDue(Cur) THEN tick < MaxTickLive ELSE ev # Event(Cur, NoClick)

\* ENABLED <<TickLive>>_vars
TickEnabled == TickDue(Cur) /\ tick < MaxTickLive

\* Time advances, script runs keep coming, and a run that stays due happens:
\* weak fairness of AdvanceTime, PollLive and TickLive, the last two written
\* out with their enabling conditions.
FairLive ==
    /\ WF_vars(AdvanceTime)
    /\ []<>(~PollEnabled) \/ []<><<PollLive>>_vars
    /\ []<>(~TickEnabled) \/ []<><<TickLive>>_vars

SpecLive == Init /\ [][NextLive]_vars /\ FairLive

\* C22: once the simulation runs, and as long as neither Pause nor Reset is
\* clicked, the tick counter eventually increases under advancing time and
\* fair polling, whatever further Start clicks are made while it runs.
C22_TickProgress ==
    \A n \in 0..(MaxTickLive - 1) :
        (running /\ tick = n) ~> (tick > n \/ ~running)

\* the same progress when a further Start click is taken as an excuse
C22_TickProgressUnlessRestarted ==
    \A n \in 0..(MaxTickLive - 1) :
        (running /\ tick = n /\ ev.op # "start")
            ~> (tick > n \/ ~running \/ ev.op = "start")

====
